---- MODULE Spec2Model ----
(***************************************************************************)
(* Model of the keystore of neuron-wallet (models/keys/keystore.ts): an    *)
(* encrypted container for an extended private key in the Web3 Secret      *)
(* Storage layout (version 3).                                             *)
(*                                                                         *)
(* Buffers are sequences of bytes (0..255).  JavaScript strings that carry *)
(* hex text or passwords are sequences of one-character strings, so that   *)
(* Buffer.from(s, 'hex') and buf.toString('hex') are real conversions.     *)
(* The three cryptographic primitives are idealised:                       *)
(*   - scrypt is a deterministic byte generator, injective in (password,   *)
(*     salt) over the values of the model (collision-free KDF);            *)
(*   - aes-128-ctr is the XOR of the data with a key stream that depends   *)
(*     on the key, the iv and the byte position;                           *)
(*   - Keccak-256 is an injective encoding of its input (collision-free).  *)
(***************************************************************************)
EXTENDS Naturals, Integers, Sequences, FiniteSets, TLC

VARIABLES ks, origin, last, inst, frame, hook

vars == <<ks, origin, last, inst, frame, hook>>

(***************************************************************************)
(* Bounds of the model.                                                    *)
(***************************************************************************)
\* longest password tried, in characters
MaxPwLen == 1
\* longest secret, in bytes (the real extended private key has 64)
MaxSecretBytes == 1

(***************************************************************************)
(* Program constants.                                                      *)
(***************************************************************************)
CIPHER == "aes-128-ctr"
SaltBytes == 32
IvBytes == 16
DkLen == 32
ScryptN == 8192
ScryptR == 8
ScryptP == 1
KeySliceEnd == 16
MacSliceEnd == 32
Version == 3

(***************************************************************************)
(* Buffers and hex text.                                                   *)
(***************************************************************************)
Rep(n, b) == [i \in 1..n |-> b]

Min(S) == CHOOSE x \in S : \A y \in S : x <= y

HexLower == <<"0","1","2","3","4","5","6","7","8","9","a","b","c","d","e","f">>

HexUpper == <<"0","1","2","3","4","5","6","7","8","9","A","B","C","D","E","F">>

\* the value of each hex digit, in either case
HexDigit ==
  [c \in {HexLower[i] : i \in 1..16} \cup {HexUpper[i] : i \in 1..16} |->
     (CHOOSE i \in 1..16 : HexLower[i] = c \/ HexUpper[i] = c) - 1]

IsHexChar(c) == c \in DOMAIN HexDigit

HexVal(c) == HexDigit[c]

\* buf.toString('hex'): two lower-case digits per byte
ToHex(buf) ==
  [k \in 1..(2 * Len(buf)) |->
     LET b == buf[(k + 1) \div 2]
     IN  IF k % 2 = 1 THEN HexLower[(b \div 16) + 1] ELSE HexLower[(b % 16) + 1]]

\* Buffer.from(str, 'hex'): whole pairs of hex digits, either case, up to the
\* first pair that is not hex; a trailing odd character is dropped
FromHex(str) ==
  LET m   == Len(str) \div 2
      bad == {k \in 1..m : ~IsHexChar(str[2 * k - 1]) \/ ~IsHexChar(str[2 * k])}
      n   == IF bad = {} THEN m ELSE Min(bad) - 1
  IN  [k \in 1..n |-> 16 * HexVal(str[2 * k - 1]) + HexVal(str[2 * k])]

\* buf.slice(from, to) with 0-based, end-exclusive indices clamped to the length
Slice(buf, from, to) ==
  LET hi == IF to < Len(buf) THEN to ELSE Len(buf)
  IN  IF from >= hi THEN <<>> ELSE SubSeq(buf, from + 1, hi)

Bit(a, i) == (a \div (2 ^ i)) % 2

XorByte(a, b) ==
  LET x(i) == ((Bit(a, i) + Bit(b, i)) % 2) * (2 ^ i)
  IN  x(0) + x(1) + x(2) + x(3) + x(4) + x(5) + x(6) + x(7)

RECURSIVE BufSum(_, _)
BufSum(buf, n) == IF n = 0 THEN 0 ELSE (2 * n + 1) * buf[n] + BufSum(buf, n - 1)

\* a number that stands for the content of a buffer in the primitives below
BufCode(buf) == BufSum(buf, Len(buf)) + Len(buf)

(***************************************************************************)
(* Cryptographic primitives.                                               *)
(***************************************************************************)
PwChars == <<"p">>

PwCharCode(c) == CHOOSE i \in 1..Len(PwChars) : PwChars[i] = c

RECURSIVE PwCode(_)
PwCode(pw) == IF pw = <<>> THEN 0 ELSE PwCharCode(Head(pw)) + 2 * PwCode(Tail(pw))

\* crypto.scryptSync(password, salt, dklen, {N, r, p})
Scrypt(password, salt, dklen, n, r, p) ==
  LET seed == 7 * PwCode(password) + 13 * BufCode(salt) + (n \div 1024) + 3 * r + 5 * p
  IN  [i \in 1..dklen |-> ((seed + 1) * (2 * i + 1) + i * i) % 251]

\* byte j (0-based) of the aes-128-ctr key stream whose key and iv make seed
KeyStream(seed, j) == (seed + 7 * (j \div 16) + 29 * (j % 16) + 1) % 256

\* cipher.update(data) ++ cipher.final() for aes-128-ctr; deciphering is the
\* same transformation
AesCtr(key, iv, data) ==
  LET seed == BufCode(key) + 3 * BufCode(iv)
  IN  [j \in 1..Len(data) |-> XorByte(data[j], KeyStream(seed, j - 1))]

\* new Keccak(256).update(buf).digest('hex')
KeccakHex(buf) == <<"k">> \o ToHex(buf)

(***************************************************************************)
(* JavaScript values: undefined, null, strings, numbers and objects (an    *)
(* object is a function from its property names to values).                *)
(***************************************************************************)
Undefined == [t |-> "undefined"]

Null == [t |-> "null"]

Str(s) == [t |-> "string", s |-> s]

Num(n) == [t |-> "number", n |-> n]

Obj(o) == [t |-> "object", o |-> o]

\* v.f for a value v that is neither undefined nor null
Get(v, f) == IF v.t = "object" /\ f \in DOMAIN v.o THEN v.o[f] ELSE Undefined

\* v.f throws a TypeError for these
Nullish(v) == v.t \in {"undefined", "null"}

(***************************************************************************)
(* The Keystore class.                                                     *)
(***************************************************************************)
\* another format version
Keystore_v4(theCrypto, id) == [crypto |-> theCrypto, id |-> id, version |-> Version + 1]

\* new Keystore(theCrypto, id)
Keystore(theCrypto, id) == [crypto |-> theCrypto, id |-> id, version |-> Version]

\* no instance constructed yet
NoKeystore == [crypto |-> Undefined, id |-> Undefined, version |-> 0]

NoBuf == [err |-> "TypeError", buf |-> <<>>]

\* this.derivedKey(password); scryptSync takes its defaults (16384, 8, 1) for
\* the options that are undefined
derivedKey(k, password) ==
  LET kdfparams == Get(k.crypto, "kdfparams")
      salt      == Get(kdfparams, "salt")
      dklen     == Get(kdfparams, "dklen")
      n         == Get(kdfparams, "n")
      r         == Get(kdfparams, "r")
      p         == Get(kdfparams, "p")
  IN  IF Nullish(k.crypto) \/ Nullish(kdfparams) THEN NoBuf
      ELSE IF salt.t # "string" \/ dklen.t # "number" THEN NoBuf
      ELSE IF n.t \notin {"number", "undefined"} \/ r.t \notin {"number", "undefined"}
               \/ p.t \notin {"number", "undefined"} THEN NoBuf
      ELSE [err |-> "none",
            buf |-> Scrypt(password, FromHex(salt.s), dklen.n,
                           IF n.t = "number" THEN n.n ELSE 16384,
                           IF r.t = "number" THEN r.n ELSE 8,
                           IF p.t = "number" THEN p.n ELSE 1)]

\* this.mac(derivedKey, ciphertext)
mac(dk, ciphertext) == KeccakHex(Slice(dk, KeySliceEnd, MacSliceEnd) \o ciphertext)

\* crypto.createCipheriv / createDecipheriv accept the cipher, key and iv
CipherAccepts(cipher, key, iv) ==
  /\ cipher = CIPHER
  /\ Len(key) = KeySliceEnd
  /\ Len(iv) = IvBytes

Thrown(e) == [err |-> e, str |-> <<>>]

\* the mac check dropped
MacDiffers_unchecked(k, dk, ciphertext) == FALSE

\* an iv that is not sixteen bytes long reported as a mac that differs
MacDiffers_ivChecked(k, dk, ciphertext) ==
  \/ Str(mac(dk, ciphertext)) # Get(k.crypto, "mac")
  \/ LET iv == Get(Get(k.crypto, "cipherparams"), "iv")
     IN  iv.t = "string" /\ Len(FromHex(iv.s)) # IvBytes

\* this.mac(derivedKey, ciphertext) !== this.crypto.mac
MacDiffers(k, dk, ciphertext) == Str(mac(dk, ciphertext)) # Get(k.crypto, "mac")

\* the mac key region taken for the cipher key
decipherKey_macRegion(dk) == Slice(dk, KeySliceEnd, MacSliceEnd)

\* derivedKey.slice(0, 16), the key of the decipher
decipherKey(dk) == Slice(dk, 0, KeySliceEnd)

\* this.decrypt(password): the hex text returned, or the error thrown
decrypt(k, password) ==
  LET dk           == derivedKey(k, password)
      ctext        == Get(k.crypto, "ciphertext")
      cipher       == Get(k.crypto, "cipher")
      cipherparams == Get(k.crypto, "cipherparams")
      iv           == Get(cipherparams, "iv")
      key          == decipherKey(dk.buf)
  IN  IF dk.err # "none" THEN Thrown(dk.err)
      ELSE IF ctext.t # "string" THEN Thrown("TypeError")
      ELSE IF MacDiffers(k, dk.buf, FromHex(ctext.s)) THEN Thrown("IncorrectPassword")
      ELSE IF Nullish(cipherparams) \/ iv.t # "string" \/ cipher.t # "string"
           THEN Thrown("TypeError")
      ELSE IF ~CipherAccepts(cipher.s, key, FromHex(iv.s)) THEN Thrown("CryptoError")
      ELSE [err |-> "none", str |-> ToHex(AesCtr(key, FromHex(iv.s), FromHex(ctext.s)))]

\* this.checkPassword(password): the boolean returned, or the error thrown
checkPassword(k, password) ==
  LET dk    == derivedKey(k, password)
      ctext == Get(k.crypto, "ciphertext")
  IN  IF dk.err # "none" THEN [err |-> dk.err, bool |-> FALSE]
      ELSE IF ctext.t # "string" THEN [err |-> "TypeError", bool |-> FALSE]
      ELSE [err |-> "none",
            bool |-> Str(mac(dk.buf, FromHex(ctext.s))) = Get(k.crypto, "mac")]

\* ExtendedPrivateKey.parse(serialized).serialize()
ParseSecret(serialized) == serialized

\* this.extendedPrivateKey(password)
extendedPrivateKey(k, password) ==
  LET d == decrypt(k, password)
  IN  IF d.err # "none" THEN d ELSE [err |-> "none", str |-> ParseSecret(d.str)]

\* an optional Buffer of the options argument
Given(buf) == [given |-> TRUE, buf |-> buf]

Absent == [given |-> FALSE, buf |-> <<>>]

\* the option ignored
OrRandom_always(option, randoms) == randoms

\* the values of (option || crypto.randomBytes(n)): the Buffer supplied (a
\* Buffer is truthy whatever its length), else any of the random ones
OrRandom(option, randoms) == IF option.given THEN {option.buf} ELSE randoms

\* Keystore.create(extendedPrivateKey, password, options), where serialized is
\* extendedPrivateKey.serialize(), salt and iv are the values of the first two
\* statements and theId is what uuid() delivers
create(serialized, password, salt, iv, theId) ==
  LET kdfparams  == [dklen |-> Num(DkLen), salt |-> Str(ToHex(salt)),
                     n |-> Num(ScryptN), r |-> Num(ScryptR), p |-> Num(ScryptP)]
      dk         == Scrypt(password, salt, DkLen, ScryptN, ScryptR, ScryptP)
      key        == Slice(dk, 0, KeySliceEnd)
      ciphertext == AesCtr(key, iv, FromHex(serialized))
      theMac     == KeccakHex(Slice(dk, KeySliceEnd, MacSliceEnd) \o ciphertext)
  IN  IF ~CipherAccepts(CIPHER, key, iv) THEN [err |-> "CryptoError", ks |-> NoKeystore]
      ELSE [err |-> "none",
            ks  |-> Keystore(Obj([ciphertext   |-> Str(ToHex(ciphertext)),
                                  cipherparams |-> Obj([iv |-> Str(ToHex(iv))]),
                                  cipher       |-> Str(CIPHER),
                                  kdf          |-> Str("scrypt"),
                                  kdfparams    |-> Obj(kdfparams),
                                  mac          |-> Str(theMac)]),
                             Str(theId))]

(***************************************************************************)
(* JSON text: either not well-formed, or the value it denotes.             *)
(***************************************************************************)
Malformed == [wf |-> FALSE, val |-> Undefined]

Json(v) == [wf |-> TRUE, val |-> v]

\* the id of the parsed object not handed on
fromJson_noId(json) ==
  IF ~json.wf \/ Nullish(json.val) THEN [err |-> "InvalidKeystore", ks |-> NoKeystore]
  ELSE [err |-> "none", ks |-> Keystore(Get(json.val, "crypto"), Undefined)]

\* Keystore.fromJson(json)
fromJson(json) ==
  IF ~json.wf THEN [err |-> "InvalidKeystore", ks |-> NoKeystore]
  ELSE IF Nullish(json.val) THEN [err |-> "InvalidKeystore", ks |-> NoKeystore]
  ELSE [err |-> "none", ks |-> Keystore(Get(json.val, "crypto"), Get(json.val, "id"))]

\* JSON.stringify(keystore): the own data properties that are not undefined
Stringify(k) ==
  LET names == {"version"} \cup (IF k.crypto.t = "undefined" THEN {} ELSE {"crypto"})
                           \cup (IF k.id.t = "undefined" THEN {} ELSE {"id"})
  IN  Json(Obj([f \in names |->
                  CASE f = "crypto" -> k.crypto
                    [] f = "id" -> k.id
                    [] OTHER -> Num(k.version)]))

(***************************************************************************)
(* Inputs of the calls.                                                    *)
(***************************************************************************)
SeqsUpTo(S, n) == UNION {[1..k -> S] : k \in 0..n}

Passwords == SeqsUpTo({PwChars[i] : i \in 1..Len(PwChars)}, MaxPwLen)

\* hex text of one byte of a serialized secret, in lower and in upper case
SecretPairs == {<<"0", "a">>, <<"A", "B">>}

Flatten(ps) == [i \in 1..(2 * Len(ps)) |-> ps[(i + 1) \div 2][2 - (i % 2)]]

\* extendedPrivateKey.serialize(): non-empty hex text of whole bytes
Secrets == {Flatten(Rep(n, p)) : n \in 1..MaxSecretBytes, p \in SecretPairs}

SuppliedSalts == {Rep(SaltBytes, 17)}

RandomSalts == {Rep(SaltBytes, 34)}

SuppliedIvs == {Rep(IvBytes, 34), Rep(IvBytes \div 2, 34)}

RandomIvs == {Rep(IvBytes, 34), Rep(IvBytes, 0)}

Uuids == {"id1", "id2"}

Options == [salt : {Absent} \cup {Given(b) : b \in SuppliedSalts},
            iv   : {Absent} \cup {Given(b) : b \in SuppliedIvs}]

\* a keystore file written by create, and edited copies of it
RefKs == create(<<"0", "a">>, <<"p">>, Rep(SaltBytes, 17), Rep(IvBytes, 34), "id1").ks

RefCrypto == RefKs.crypto.o

Without(o, f) == [g \in DOMAIN o \ {f} |-> o[g]]

With(o, f, v) == [g \in DOMAIN o \cup {f} |-> IF g = f THEN v ELSE o[g]]

RefDoc(c) == Json(Obj([crypto |-> Obj(c), id |-> RefKs.id, version |-> Num(Version)]))

JsonInputs ==
  { Malformed,
    Json(Null),
    Json(Obj(<<>>)),
    Json(Obj([crypto |-> RefKs.crypto, version |-> Num(Version)])),
    Json(Obj([id |-> RefKs.id, version |-> Num(Version)])),
    RefDoc(RefCrypto),
    RefDoc(Without(RefCrypto, "mac")),
    RefDoc(Without(RefCrypto, "kdfparams")),
    RefDoc(Without(RefCrypto, "cipherparams")),
    RefDoc(With(RefCrypto, "cipher", Str("foo"))),
    RefDoc(With(RefCrypto, "cipherparams", Obj([iv |-> Str(<<"0", "0">>)]))),
    RefDoc(With(With(RefCrypto, "kdfparams",
                     Obj(With(RefCrypto.kdfparams.o, "dklen", Num(KeySliceEnd)))),
                "mac", Str(KeccakHex(FromHex(RefCrypto.ciphertext.s))))),
    Json(Obj([crypto |-> Obj(With(RefCrypto, "extra", Num(1))), id |-> RefKs.id,
              version |-> Num(4), extra |-> Num(1)])) }

\* edits of a stored text: the case of its hex letters, its first character
UpperChar(c) == IF IsHexChar(c) THEN HexUpper[HexVal(c) + 1] ELSE c

Upper(str) == [i \in 1..Len(str) |-> UpperChar(str[i])]

FlipFirst(str) ==
  IF str = <<>> THEN <<"0", "0">>
  ELSE [str EXCEPT ![1] = IF str[1] = "0" THEN "1" ELSE "0"]

\* the texts that replace a stored ciphertext (decoded as hex when read) and a
\* stored mac (compared as a string when read)
Edits(field, str) ==
  IF field = "mac" THEN {Upper(str)} \ {str} ELSE {Upper(str), FlipFirst(str)} \ {str}

(***************************************************************************)
(* State: the Keystore instance in hand (ks), where its envelope comes     *)
(* from (origin: the arguments of the create call that built it and the    *)
(* envelope create returned, or a JSON text from outside), and the last    *)
(* call with what it returned or threw (last).                             *)
(***************************************************************************)
NoOrigin ==
  [kind |-> "none", secret |-> <<>>, password |-> <<>>,
   options |-> [salt |-> Absent, iv |-> Absent], crypto0 |-> Undefined,
   edited |-> "none"]

Call(op) ==
  [op |-> op, password |-> <<>>, err |-> "none", str |-> <<>>, bool |-> FALSE,
   json |-> Malformed, repeat |-> FALSE]

HasInstance == ks.version # 0

(***************************************************************************)
(* Calls in flight.  Two callers each run one call at a time, statement by *)
(* statement, on the Keystore instances of inst; frame[c] holds the        *)
(* arguments, the position and the local constants of the call of c.       *)
(***************************************************************************)
Callers == {"a", "b"}

\* the instances that exist when the callers start: two made by create, one
\* read from a file whose iv is one byte long
Instances ==
  [x |-> RefKs,
   y |-> create(<<"A", "B">>, <<>>, Rep(SaltBytes, 34), Rep(IvBytes, 0), "id2").ks,
   z |-> Keystore(Obj(With(RefCrypto, "cipherparams", Obj([iv |-> Str(<<"0", "0">>)]))),
                  Str("id2"))]

Idle ==
  [op |-> "none", pc |-> "idle", target |-> "x", password |-> <<>>, secret |-> <<>>,
   salt |-> <<>>, iv |-> <<>>, dk |-> <<>>, ctext |-> <<>>,
   compared |-> FALSE, differs |-> FALSE, deciphered |-> FALSE,
   err |-> "none", str |-> <<>>, bool |-> FALSE, ks |-> NoKeystore]

\* the call of frame f has returned or thrown
Done(f) == f.pc = "done"

(***************************************************************************)
(* The chain-sync hook of one mounted component: the module variable       *)
(* timer, the intervals that are set and not cleared, the chainURL prop    *)
(* and the chainURL that the effect that ran last has closed over, the     *)
(* node of ckbCore, and the requests in flight.                            *)
(***************************************************************************)
MaxIntervals == 3

\* let timer: NodeJS.Timeout, before any assignment; setInterval never
\* returns it
NoTimer == 0

ChainURLs == {"", "u1", "u2"}

HookInit ==
  [phase |-> "unmounted", prop |-> "", chainURL |-> "", timer |-> NoTimer,
   active |-> {}, made |-> 0, node |-> "", tip |-> FALSE, info |-> FALSE,
   dispatched |-> {}]

Init ==
  /\ ks = NoKeystore
  /\ origin = NoOrigin
  /\ last = Call("none")
  /\ inst = Instances
  /\ frame = [c \in Callers |-> Idle]
  /\ hook = HookInit

\* Keystore.create(extendedPrivateKey, password, options)
Create(serialized, password, options) ==
  /\ ~HasInstance
  /\ \E salt \in OrRandom(options.salt, RandomSalts),
        iv \in OrRandom(options.iv, RandomIvs), theId \in Uuids :
    LET res == create(serialized, password, salt, iv, theId)
    IN  IF res.err # "none"
        THEN /\ last' = [Call("create") EXCEPT !.err = res.err]
             /\ UNCHANGED <<ks, origin>>
        ELSE /\ ks' = res.ks
             /\ origin' = [kind |-> "create", secret |-> serialized,
                           password |-> password, options |-> options,
                           crypto0 |-> res.ks.crypto, edited |-> "none"]
             /\ last' = [Call("create") EXCEPT
                           !.password = password,
                           !.repeat = /\ origin.kind = "create"
                                      /\ origin.secret = serialized
                                      /\ origin.password = password
                                      /\ origin.options = options
                                      /\ options.salt.given
                                      /\ options.iv.given]

\* Keystore.fromJson(json), on a text from outside or on the text that
\* JSON.stringify made of the instance in hand
FromJson(json) ==
  LET res == fromJson(json)
  IN  IF res.err # "none"
      THEN /\ last' = [Call("fromJson") EXCEPT !.err = res.err, !.json = json]
           /\ UNCHANGED <<ks, origin>>
      ELSE /\ ks' = res.ks
           /\ origin' = IF HasInstance THEN origin
                        ELSE [NoOrigin EXCEPT !.kind = "fromJson"]
           /\ last' = [Call("fromJson") EXCEPT !.json = json]

\* the instance in hand is dropped; origin still tells of the call that built it
Discard ==
  /\ HasInstance
  /\ ks' = NoKeystore
  /\ origin' = [origin EXCEPT !.edited = "none"]
  /\ last' = Call("discard")

\* decrypt writing the normalised ciphertext back into the envelope
Decrypt_writeBack(password) ==
  /\ HasInstance
  /\ LET res == decrypt(ks, password)
         ctext == Get(ks.crypto, "ciphertext")
     IN  /\ last' = [Call("decrypt") EXCEPT !.password = password, !.err = res.err,
                                            !.str = res.str]
         /\ ks' = IF ctext.t = "string"
                  THEN [ks EXCEPT !.crypto = Obj(With(ks.crypto.o, "ciphertext",
                                                      Str(ToHex(FromHex(ctext.s)))))]
                  ELSE ks
  /\ UNCHANGED origin

\* keystore.decrypt(password)
Decrypt(password) ==
  /\ HasInstance
  /\ LET res == decrypt(ks, password)
     IN  last' = [Call("decrypt") EXCEPT !.password = password, !.err = res.err,
                                         !.str = res.str]
  /\ UNCHANGED <<ks, origin>>

\* keystore.checkPassword(password)
CheckPassword(password) ==
  /\ HasInstance
  /\ LET res == checkPassword(ks, password)
     IN  last' = [Call("checkPassword") EXCEPT !.password = password,
                                               !.err = res.err, !.bool = res.bool]
  /\ UNCHANGED <<ks, origin>>

\* keystore.extendedPrivateKey(password)
ExtendedPrivateKey(password) ==
  /\ HasInstance
  /\ LET res == extendedPrivateKey(ks, password)
     IN  last' = [Call("extendedPrivateKey") EXCEPT !.password = password,
                                                    !.err = res.err, !.str = res.str]
  /\ UNCHANGED <<ks, origin>>

\* the stored ciphertext or mac of a created keystore is replaced from outside
\* (the fields are public and the file is on disk)
Tamper(field) ==
  /\ HasInstance
  /\ origin.kind = "create"
  /\ origin.edited = "none"
  /\ \E v \in Edits(field, ks.crypto.o[field].s) :
       ks' = [ks EXCEPT !.crypto = Obj(With(ks.crypto.o, field, Str(v)))]
  /\ origin' = [origin EXCEPT !.edited = field]
  /\ last' = Call("tamper")

Next ==
  \/ (\E s \in Secrets, p \in Passwords, o \in Options : Create(s, p, o))
       /\ UNCHANGED <<inst, frame, hook>>
  \/ ~HasInstance /\ (\E j \in JsonInputs : FromJson(j)) /\ UNCHANGED <<inst, frame, hook>>
  \/ HasInstance /\ FromJson(Stringify(ks)) /\ UNCHANGED <<inst, frame, hook>>
  \/ Discard /\ UNCHANGED <<inst, frame, hook>>
  \/ (\E p \in Passwords : Decrypt(p)) /\ UNCHANGED <<inst, frame, hook>>
  \/ (\E p \in Passwords : CheckPassword(p)) /\ UNCHANGED <<inst, frame, hook>>
  \/ (\E p \in Passwords : ExtendedPrivateKey(p)) /\ UNCHANGED <<inst, frame, hook>>
  \/ (\E f \in {"ciphertext", "mac"} : Tamper(f)) /\ UNCHANGED <<inst, frame, hook>>

Spec == Init /\ [][Next]_vars

(***************************************************************************)
(* Properties.                                                             *)
(***************************************************************************)
LowerChar(c) == IF IsHexChar(c) THEN HexLower[HexVal(c) + 1] ELSE c

Lower(str) == [i \in 1..Len(str) |-> LowerChar(str[i])]

\* the last call was decrypt(P) on an unedited keystore that create(S, P) built
DecryptedWithOwnPassword ==
  /\ origin.kind = "create"
  /\ origin.edited = "none"
  /\ last.op = "decrypt"
  /\ last.password = origin.password

\* C1 as stated: create(S, P).decrypt(P) returns exactly S.serialize(), for
\* every secret S, password P and salt/iv that create accepts.
C1_RoundTripExact ==
  DecryptedWithOwnPassword => last.err = "none" /\ last.str = origin.secret

\* C1 amended: create(S, P).decrypt(P) returns S.serialize() with its hex
\* letters in lower case, hence exactly S.serialize() when that is lower case.
C1_RoundTripLowerCase ==
  DecryptedWithOwnPassword =>
    /\ last.err = "none"
    /\ last.str = Lower(origin.secret)
    /\ (origin.secret = Lower(origin.secret) => last.str = origin.secret)

\* a lower-case secret under the empty password has come back exactly
C1_Witness ==
  /\ DecryptedWithOwnPassword
  /\ last.password = <<>>
  /\ origin.secret = Lower(origin.secret)
  /\ last.err = "none"
  /\ last.str = origin.secret

\* C2: create(S, P).decrypt(P2) with P2 # P throws IncorrectPassword: it
\* returns nothing and throws nothing else.
C2_WrongPasswordRejected ==
  (/\ origin.kind = "create"
   /\ origin.edited = "none"
   /\ last.op = "decrypt"
   /\ last.password # origin.password)
  => last.err = "IncorrectPassword" /\ last.str = <<>>

\* decrypt was called with the empty password on a keystore made with "p"
C2_Witness ==
  /\ origin.kind = "create"
  /\ origin.edited = "none"
  /\ last.op = "decrypt"
  /\ origin.password = <<"p">>
  /\ last.password = <<>>
  /\ last.err = "IncorrectPassword"

\* C3: on every Keystore, from create or from fromJson, checkPassword(P)
\* returns a boolean without throwing, and the boolean is true exactly when
\* decrypt(P) does not throw.
C3_CheckPasswordConsistent ==
  (HasInstance /\ origin.edited = "none") =>
    \A p \in Passwords :
      /\ checkPassword(ks, p).err = "none"
      /\ checkPassword(ks, p).bool <=> (decrypt(ks, p).err = "none")

\* the fields the wire format requires
CryptoFields == {"cipher", "cipherparams", "ciphertext", "kdf", "kdfparams", "mac"}

MissingRequired(json) ==
  /\ json.wf
  /\ \/ Get(json.val, "crypto").t # "object"
     \/ Get(json.val, "id").t = "undefined"
     \/ \E f \in CryptoFields : Get(Get(json.val, "crypto"), f).t = "undefined"
     \/ Get(Get(Get(json.val, "crypto"), "cipherparams"), "iv").t = "undefined"

\* C4: fromJson throws InvalidKeystore for every text that is not well-formed
\* JSON and for every well-formed text that lacks a required field, "{}"
\* included; it returns no Keystore for such a text.
C4_InvalidInputRejected ==
  (last.op = "fromJson" /\ (~last.json.wf \/ MissingRequired(last.json)))
  => last.err = "InvalidKeystore"

StoredText(field) == Get(ks.crypto, field).s

OriginalText(field) == Get(origin.crypto0, field).s

\* the last call was decrypt(P) on a keystore create(S, P) built whose
\* ciphertext or mac was replaced since
DecryptedEdited ==
  /\ origin.kind = "create"
  /\ origin.edited # "none"
  /\ last.op = "decrypt"
  /\ last.password = origin.password

\* C5 as stated: after the stored ciphertext, or the stored mac, is replaced by
\* any different value, decrypt with the right password throws
\* IncorrectPassword and returns no plaintext.
C5_AnyEditDetected ==
  (DecryptedEdited
   /\ (StoredText("ciphertext") # OriginalText("ciphertext")
       \/ StoredText("mac") # OriginalText("mac")))
  => last.err = "IncorrectPassword"

\* C5 amended: after the stored ciphertext is replaced by a hex text that
\* decodes to other bytes, or the stored mac by any different string, decrypt
\* with the right password throws IncorrectPassword and returns no plaintext.
C5_ByteEditDetected ==
  (DecryptedEdited
   /\ (FromHex(StoredText("ciphertext")) # FromHex(OriginalText("ciphertext"))
       \/ StoredText("mac") # OriginalText("mac")))
  => last.err = "IncorrectPassword" /\ last.str = <<>>

\* a ciphertext that decodes to other bytes was refused
C5_Witness ==
  /\ DecryptedEdited
  /\ origin.edited = "ciphertext"
  /\ FromHex(StoredText("ciphertext")) # FromHex(OriginalText("ciphertext"))
  /\ last.err = "IncorrectPassword"

\* C6: for every Keystore, the JSON of the Keystore parsed from its JSON is the
\* JSON it was parsed from: no field dropped, added or changed.
C6_FormatStable ==
  HasInstance =>
    /\ fromJson(Stringify(ks)).err = "none"
    /\ Stringify(fromJson(Stringify(ks)).ks) = Stringify(ks)

\* a keystore built by create was parsed back from its own JSON
C6_Witness ==
  /\ last.op = "fromJson"
  /\ last.err = "none"
  /\ origin.kind = "create"
  /\ last.json = Stringify(ks)
  /\ ks.id.t = "string"

\* C7: a create call with the S, P, salt and iv of the create call before it
\* returns the same envelope (ciphertext, mac, iv, salt, kdfparams); only the
\* id may differ.
C7_Deterministic ==
  [][(last'.op = "create" /\ last'.repeat) => ks'.crypto = origin.crypto0]_vars

\* create was called twice in a row with the same S, P, salt and iv
C7_Witness ==
  /\ last.op = "create"
  /\ last.err = "none"
  /\ last.repeat
  /\ ks.crypto = origin.crypto0

\* C8: decrypt, checkPassword and extendedPrivateKey leave the envelope, the id
\* and the version as they were, whatever the password and whether they return
\* or throw.
C8_EnvelopeUnchanged ==
  [][last'.op \in {"decrypt", "checkPassword", "extendedPrivateKey"} => ks' = ks]_vars

\* a call on a Keystore with an envelope has thrown IncorrectPassword
C8_Witness ==
  /\ last.op \in {"decrypt", "extendedPrivateKey"}
  /\ last.err = "IncorrectPassword"
  /\ ks.crypto.t = "object"

\* C9: every Keystore that create or fromJson returns has dklen >= 32 and an
\* iv of exactly 16 bytes (32 hex characters).
C9_DataModelInvariants ==
  HasInstance =>
    LET dklen == Get(Get(ks.crypto, "kdfparams"), "dklen")
        iv    == Get(Get(ks.crypto, "cipherparams"), "iv")
    IN  /\ dklen.t = "number"
        /\ dklen.n >= 32
        /\ iv.t = "string"
        /\ Len(iv.s) = 32
        /\ Len(FromHex(iv.s)) = 16

\* C10: a Keystore that create returned has version 3, cipher "aes-128-ctr",
\* kdf "scrypt", dklen 32, n 8192, r 8, p 1, the salt and the iv of the options
\* where supplied and 32 and 16 random bytes otherwise, and a ciphertext as
\* long in bytes as S.serialize().
C10_CreateShape ==
  (last.op = "create" /\ last.err = "none") =>
    LET c   == ks.crypto.o
        kdf == c.kdfparams.o
    IN  /\ ks.version = 3
        /\ c.cipher = Str("aes-128-ctr")
        /\ c.kdf = Str("scrypt")
        /\ kdf.dklen = Num(32) /\ kdf.n = Num(8192) /\ kdf.r = Num(8) /\ kdf.p = Num(1)
        /\ IF origin.options.salt.given
           THEN FromHex(kdf.salt.s) = origin.options.salt.buf
           ELSE Len(FromHex(kdf.salt.s)) = 32
        /\ IF origin.options.iv.given
           THEN FromHex(c.cipherparams.o.iv.s) = origin.options.iv.buf
           ELSE Len(FromHex(c.cipherparams.o.iv.s)) = 16
        /\ Len(FromHex(c.ciphertext.s)) = Len(FromHex(origin.secret))
        /\ 2 * Len(FromHex(c.ciphertext.s)) = Len(origin.secret)

\* create returned with a supplied salt and a random iv
C10_Witness ==
  /\ last.op = "create"
  /\ last.err = "none"
  /\ origin.options.salt.given
  /\ ~origin.options.iv.given
  /\ ks.version = 3

(***************************************************************************)
(* Calls of create, decrypt and checkPassword run statement by statement.  *)
(* Node runs each of these synchronous calls to completion, so the runs of *)
(* the program are those in which the steps of a call follow one another;  *)
(* the steps of two callers are let to alternate freely here.              *)
(***************************************************************************)
SetFrame(c, f) == frame' = [frame EXCEPT ![c] = f]

\* keystore.decrypt(password) or keystore.checkPassword(password) is entered
Enter(c, op, target, password) ==
  /\ frame[c].pc = "idle"
  /\ SetFrame(c, [Idle EXCEPT !.op = op, !.pc = "derive", !.target = target,
                              !.password = password])
  /\ UNCHANGED inst

\* Keystore.create(extendedPrivateKey, password, options) is entered; salt and
\* iv are set by its first two statements
EnterCreate(c, serialized, password, options) ==
  /\ frame[c].pc = "idle"
  /\ \E salt \in OrRandom(options.salt, RandomSalts),
        iv \in OrRandom(options.iv, RandomIvs) :
       SetFrame(c, [Idle EXCEPT !.op = "create", !.pc = "derive",
                                !.secret = serialized, !.password = password,
                                !.salt = salt, !.iv = iv])
  /\ UNCHANGED inst

\* the frame of a call after its derived key is computed
Derived(f) ==
  IF f.op = "create"
  THEN [f EXCEPT !.dk = Scrypt(f.password, f.salt, DkLen, ScryptN, ScryptR, ScryptP),
                 !.pc = "encrypt"]
  ELSE LET r == derivedKey(inst[f.target], f.password)
       IN  IF r.err # "none" THEN [f EXCEPT !.pc = "done", !.err = r.err]
           ELSE [f EXCEPT !.dk = r.buf, !.pc = "compare"]

\* the derived key kept in one place that all calls in flight share
DeriveKey_shared(c) ==
  /\ frame[c].pc = "derive"
  /\ frame' = [d \in Callers |->
                 IF d = c THEN Derived(frame[c])
                 ELSE IF frame[d].pc \in {"compare", "decipher", "encrypt", "seal"}
                      THEN [frame[d] EXCEPT !.dk = Derived(frame[c]).dk]
                      ELSE frame[d]]
  /\ UNCHANGED inst

\* const derivedKey = ... : the scrypt key is computed into a local constant
DeriveKey(c) ==
  /\ frame[c].pc = "derive"
  /\ SetFrame(c, Derived(frame[c]))
  /\ UNCHANGED inst

\* decrypt goes on to the decipher although the mac differs
CompareMac_proceed(c) ==
  LET f     == frame[c]
      ctext == Get(inst[f.target].crypto, "ciphertext")
  IN  /\ f.op = "decrypt"
      /\ f.pc = "compare"
      /\ IF ctext.t # "string"
         THEN SetFrame(c, [f EXCEPT !.pc = "done", !.err = "TypeError"])
         ELSE SetFrame(c, [f EXCEPT !.ctext = FromHex(ctext.s), !.compared = TRUE,
                                    !.differs = MacDiffers(inst[f.target], f.dk,
                                                           FromHex(ctext.s)),
                                    !.pc = "decipher"])
      /\ UNCHANGED inst

\* decrypt: the ciphertext is read and its mac compared with the stored one
CompareMac(c) ==
  LET f     == frame[c]
      ctext == Get(inst[f.target].crypto, "ciphertext")
  IN  /\ f.op = "decrypt"
      /\ f.pc = "compare"
      /\ IF ctext.t # "string"
         THEN SetFrame(c, [f EXCEPT !.pc = "done", !.err = "TypeError"])
         ELSE LET differs == MacDiffers(inst[f.target], f.dk, FromHex(ctext.s))
              IN  SetFrame(c, [f EXCEPT !.ctext = FromHex(ctext.s),
                                        !.compared = TRUE, !.differs = differs,
                                        !.pc = IF differs THEN "done" ELSE "decipher",
                                        !.err = IF differs THEN "IncorrectPassword"
                                                ELSE "none"])
      /\ UNCHANGED inst

\* decrypt: the decipher is created and applied, and the hex text returned
Decipher(c) ==
  LET f            == frame[c]
      k            == inst[f.target]
      cipher       == Get(k.crypto, "cipher")
      cipherparams == Get(k.crypto, "cipherparams")
      iv           == Get(cipherparams, "iv")
      key          == decipherKey(f.dk)
  IN  /\ f.op = "decrypt"
      /\ f.pc = "decipher"
      /\ SetFrame(c,
           IF Nullish(cipherparams) \/ iv.t # "string" \/ cipher.t # "string"
           THEN [f EXCEPT !.pc = "done", !.deciphered = TRUE, !.err = "TypeError"]
           ELSE IF ~CipherAccepts(cipher.s, key, FromHex(iv.s))
           THEN [f EXCEPT !.pc = "done", !.deciphered = TRUE, !.err = "CryptoError"]
           ELSE [f EXCEPT !.pc = "done", !.deciphered = TRUE,
                          !.str = ToHex(AesCtr(key, FromHex(iv.s), f.ctext))])
      /\ UNCHANGED inst

\* checkPassword: the ciphertext is read and the comparison returned
CheckCompare(c) ==
  LET f     == frame[c]
      k     == inst[f.target]
      ctext == Get(k.crypto, "ciphertext")
  IN  /\ f.op = "checkPassword"
      /\ f.pc = "compare"
      /\ SetFrame(c,
           IF ctext.t # "string" THEN [f EXCEPT !.pc = "done", !.err = "TypeError"]
           ELSE [f EXCEPT !.pc = "done",
                          !.bool = Str(mac(f.dk, FromHex(ctext.s))) = Get(k.crypto, "mac")])
      /\ UNCHANGED inst

\* create: the cipher is made and the secret encrypted
CreateEncrypt(c) ==
  LET f   == frame[c]
      key == Slice(f.dk, 0, KeySliceEnd)
  IN  /\ f.op = "create"
      /\ f.pc = "encrypt"
      /\ SetFrame(c,
           IF ~CipherAccepts(CIPHER, key, f.iv)
           THEN [f EXCEPT !.pc = "done", !.err = "CryptoError"]
           ELSE [f EXCEPT !.pc = "seal",
                          !.ctext = AesCtr(key, f.iv, FromHex(f.secret))])
      /\ UNCHANGED inst

\* create: the mac is computed and the Keystore constructed with a new uuid
CreateSeal(c) ==
  LET f == frame[c]
  IN  /\ f.op = "create"
      /\ f.pc = "seal"
      /\ \E theId \in Uuids :
           SetFrame(c,
             [f EXCEPT !.pc = "done",
                       !.ks = Keystore(
                         Obj([ciphertext   |-> Str(ToHex(f.ctext)),
                              cipherparams |-> Obj([iv |-> Str(ToHex(f.iv))]),
                              cipher       |-> Str(CIPHER),
                              kdf          |-> Str("scrypt"),
                              kdfparams    |-> Obj([dklen |-> Num(DkLen),
                                                    salt  |-> Str(ToHex(f.salt)),
                                                    n     |-> Num(ScryptN),
                                                    r     |-> Num(ScryptR),
                                                    p     |-> Num(ScryptP)]),
                              mac          |-> Str(KeccakHex(
                                Slice(f.dk, KeySliceEnd, MacSliceEnd) \o f.ctext))]),
                         Str(theId))])
      /\ UNCHANGED inst

\* the caller has taken what the call returned or threw
Return(c) ==
  /\ Done(frame[c])
  /\ SetFrame(c, Idle)
  /\ UNCHANGED inst

NextCalls ==
  \/ (\E c \in Callers, op \in {"decrypt", "checkPassword"}, t \in DOMAIN Instances,
         p \in Passwords : Enter(c, op, t, p)) /\ UNCHANGED <<ks, origin, last, hook>>
  \/ (\E c \in Callers, s \in Secrets, p \in Passwords, o \in Options :
         EnterCreate(c, s, p, o)) /\ UNCHANGED <<ks, origin, last, hook>>
  \/ (\E c \in Callers : DeriveKey(c)) /\ UNCHANGED <<ks, origin, last, hook>>
  \/ (\E c \in Callers : CompareMac(c)) /\ UNCHANGED <<ks, origin, last, hook>>
  \/ (\E c \in Callers : Decipher(c)) /\ UNCHANGED <<ks, origin, last, hook>>
  \/ (\E c \in Callers : CheckCompare(c)) /\ UNCHANGED <<ks, origin, last, hook>>
  \/ (\E c \in Callers : CreateEncrypt(c)) /\ UNCHANGED <<ks, origin, last, hook>>
  \/ (\E c \in Callers : CreateSeal(c)) /\ UNCHANGED <<ks, origin, last, hook>>
  \/ (\E c \in Callers : Return(c)) /\ UNCHANGED <<ks, origin, last, hook>>

SpecCalls == Init /\ [][NextCalls]_vars

\* what the call of frame f returns or throws when it runs alone on the
\* instances as they were constructed
Alone(f) ==
  IF f.op = "decrypt"
  THEN LET r == decrypt(Instances[f.target], f.password)
       IN  f.err = r.err /\ f.str = r.str
  ELSE IF f.op = "checkPassword"
  THEN LET r == checkPassword(Instances[f.target], f.password)
       IN  f.err = r.err /\ f.bool = r.bool
  ELSE \E theId \in Uuids :
         LET r == create(f.secret, f.password, f.salt, f.iv, theId)
         IN  f.err = r.err /\ f.ks = r.ks

\* C11: however the steps of create, decrypt and checkPassword calls on the
\* same or on different instances alternate, each call returns or throws
\* what it does when run alone, and no call changes an instance
C11_CallIndependence ==
  /\ inst = Instances
  /\ \A c \in Callers : Done(frame[c]) => Alone(frame[c])

\* a decrypt has returned the secret while the other caller is in the middle
\* of a call with another password on the same instance
C11_Witness ==
  \E c \in Callers, d \in Callers :
    /\ c # d
    /\ Done(frame[c]) /\ frame[c].op = "decrypt" /\ frame[c].err = "none"
    /\ frame[d].pc \in {"compare", "decipher", "done"}
    /\ frame[d].target = frame[c].target
    /\ frame[d].password # frame[c].password

\* C12: in a decrypt the mac is compared before the decipher step is reached,
\* and when the mac differs the call throws IncorrectPassword and never
\* reaches the decipher step
C12_AuthenticateThenDecrypt ==
  \A c \in Callers :
    frame[c].op = "decrypt" =>
      /\ frame[c].deciphered => frame[c].compared /\ ~frame[c].differs
      /\ frame[c].pc = "decipher" => frame[c].compared /\ ~frame[c].differs
      /\ frame[c].compared /\ frame[c].differs =>
           /\ Done(frame[c])
           /\ frame[c].err = "IncorrectPassword"
           /\ ~frame[c].deciphered

\* one decrypt has thrown IncorrectPassword without reaching the decipher,
\* another has passed the comparison and applied the decipher
C12_Witness ==
  \E c \in Callers, d \in Callers :
    /\ frame[c].op = "decrypt" /\ Done(frame[c])
    /\ frame[c].compared /\ frame[c].differs /\ ~frame[c].deciphered
    /\ frame[c].err = "IncorrectPassword"
    /\ frame[d].op = "decrypt" /\ Done(frame[d])
    /\ frame[d].compared /\ ~frame[d].differs /\ frame[d].deciphered


(***************************************************************************)
(* Keystores that differ from the one in hand in cipherparams.iv only, or  *)
(* in the cipher name only.                                                *)
(***************************************************************************)
IvTexts == {<<"0", "0">>, ToHex(Rep(IvBytes, 0)), ToHex(Rep(IvBytes, 34))}

CipherNames == {CIPHER, "foo"}

IvVariants(k) ==
  IF Get(k.crypto, "cipherparams").t # "object" THEN {}
  ELSE {[k EXCEPT !.crypto =
           Obj(With(k.crypto.o, "cipherparams",
                    Obj(With(k.crypto.o.cipherparams.o, "iv", Str(v)))))] : v \in IvTexts}

CipherVariants(k) ==
  IF k.crypto.t # "object" THEN {}
  ELSE {[k EXCEPT !.crypto = Obj(With(k.crypto.o, "cipher", Str(c)))] : c \in CipherNames}

\* C13: when checkPassword or decrypt has just run on the keystore in hand,
\* every keystore that differs from it only in cipherparams.iv, or only in
\* cipher, gives the same checkPassword answer for that password and throws
\* IncorrectPassword from decrypt exactly when the one in hand did; no
\* password is reported as IncorrectPassword because of the iv or the cipher
C13_MacIgnoresIvAndCipher ==
  HasInstance =>
    \A v \in IvVariants(ks) \cup CipherVariants(ks) :
      /\ last.op = "checkPassword" =>
           checkPassword(v, last.password) = [err |-> last.err, bool |-> last.bool]
      /\ last.op = "decrypt" =>
           (decrypt(v, last.password).err = "IncorrectPassword"
              <=> last.err = "IncorrectPassword")

\* the keystore in hand is the reference keystore with a one-byte iv; the
\* password that the reference keystore decrypts with has just been tried:
\* checkPassword accepts it and decrypt failed in the decipher, not in the
\* mac check
C13_Witness ==
  /\ ks.crypto = Obj(With(RefCrypto, "cipherparams", Obj([iv |-> Str(<<"0", "0">>)])))
  /\ last.op = "decrypt"
  /\ last.err = "CryptoError"
  /\ decrypt(RefKs, last.password).err = "none"
  /\ checkPassword(ks, last.password).bool


(***************************************************************************)
(* useSyncChainData under the protocol of useEffect: the effect runs after *)
(* the render that mounts the component and after every render in which    *)
(* chainURL or dispatch has changed, the cleanup of the effect that ran    *)
(* before runs first, and the last cleanup runs when the component         *)
(* unmounts.                                                               *)
(***************************************************************************)
SetHook(h) == hook' = h /\ UNCHANGED <<ks, origin, last, inst, frame>>

\* clearInterval(id): a no-op for an id that is not set
ClearInterval(active, id) == active \ {id}

\* the cleanup that clears nothing
RunCleanup_none(h) == h

\* () => { clearInterval(timer) }
RunCleanup(h) == [h EXCEPT !.active = ClearInterval(h.active, h.timer)]

\* syncTipNumber(); syncBlockchainInfo(): both requests are sent
Synced(h) == [h EXCEPT !.tip = TRUE, !.info = TRUE]

\* the component renders with chainURL = url: the first render, or one in
\* which chainURL or dispatch has changed
Render(url) ==
  /\ hook.phase \in {"unmounted", "ran"}
  /\ hook.made < MaxIntervals
  /\ SetHook([hook EXCEPT !.prop = url,
                          !.phase = IF hook.phase = "unmounted" THEN "rendered"
                                    ELSE "stale"])

\* the cleanup of the effect that ran before, ahead of the next effect
Cleanup ==
  /\ hook.phase = "stale"
  /\ SetHook([RunCleanup(hook) EXCEPT !.phase = "cleaned"])

\* the effect runs with the chainURL of the render
Effect ==
  /\ hook.phase \in {"rendered", "cleaned"}
  /\ LET cleared == [hook EXCEPT !.active = ClearInterval(hook.active, hook.timer),
                                 !.chainURL = hook.prop, !.phase = "ran"]
         id      == hook.made + 1
     IN  IF hook.prop # ""
         THEN SetHook([Synced(cleared) EXCEPT !.node = hook.prop,
                                              !.timer = id,
                                              !.active = cleared.active \cup {id},
                                              !.made = id])
         ELSE SetHook([cleared EXCEPT !.node = ""])

\* the component unmounts: the cleanup of the last effect runs
Unmount ==
  /\ hook.phase = "ran"
  /\ SetHook([RunCleanup(hook) EXCEPT !.phase = "final"])

\* SYNC_INTERVAL_TIME has passed for an interval that is set
Tick ==
  /\ hook.active # {}
  /\ SetHook(Synced(hook))

\* getTipBlockNumber() settles: dispatch on success, console.error otherwise
SettleTip(ok) ==
  /\ hook.tip
  /\ SetHook([hook EXCEPT !.tip = FALSE,
                          !.dispatched = IF ok THEN @ \cup {"UpdateTipBlockNumber"}
                                         ELSE @])

\* getBlockchainInfo() settles: dispatch when it delivers an info
SettleInfo(ok) ==
  /\ hook.info
  /\ SetHook([hook EXCEPT !.info = FALSE,
                          !.dispatched = IF ok THEN @ \cup {"UpdateChainInfo"} ELSE @])

NextSync ==
  \/ \E url \in ChainURLs : Render(url)
  \/ Cleanup
  \/ Effect
  \/ Unmount
  \/ Tick
  \/ \E ok \in BOOLEAN : SettleTip(ok)
  \/ \E ok \in BOOLEAN : SettleInfo(ok)

SpecSync == Init /\ [][NextSync]_vars

\* C14: at most one polling interval is set at any time; none is set while
\* the chainURL of the effect that ran last is empty, and none after the
\* cleanup at unmount
C14_OneIntervalAtMost ==
  /\ Cardinality(hook.active) <= 1
  /\ hook.active \subseteq {hook.timer}
  /\ hook.chainURL = "" => hook.active = {}
  /\ hook.phase = "final" => hook.active = {}

\* the component has unmounted after its effect has set at least two
\* intervals, the last for a non-empty chainURL, and a request is in flight
C14_Witness ==
  /\ hook.phase = "final"
  /\ hook.made >= 2
  /\ hook.node # ""
  /\ hook.tip

====
